---- MODULE Spec2Model ----
(***************************************************************************)
(* Model of meraki-ap-util.py: the polling loop of main(), the metric      *)
(* fetchers, the row builder and renderer of generate_html_report(), the   *)
(* process-wide version token and the report file, and the HTTP handler    *)
(* that serves both.                                                       *)
(*                                                                         *)
(* Text that the program orders or rewrites (device names, models) is a    *)
(* sequence of code points; text that it only compares for equality        *)
(* (serials, statuses, product types, bands) is a string.                  *)
(***************************************************************************)
EXTENDS Integers, Sequences, FiniteSets, TLC

\* ------------------------------------------------------------------------
\* Bounds of the model
\* ------------------------------------------------------------------------

\* Longest device-status list one cycle of SpecCycle receives.
MaxLen == 2

\* Number of polling cycles Spec lets the loop start.
MaxIter == 2

\* ------------------------------------------------------------------------
\* Values
\* ------------------------------------------------------------------------

\* Python's None where a number is expected (a JSON null, a missing sample).
None == -1

\* A key that a JSON object does not carry: dict.get falls back to its default.
Missing == -2

\* No HTTP response at all: requests.get raised a transport error.
NoResponse == 0

\* Python's None where a status string is expected.
NoneStatus == "None"

Bands == <<"2.4", "5", "6">>

BandSet == {Bands[i] : i \in 1..Len(Bands)}

\* "Default Device Name"
DefaultDeviceName ==
    <<68, 101, 102, 97, 117, 108, 116, 32, 68, 101, 118, 105, 99, 101, 32,
      78, 97, 109, 101>>

\* "Unknown Model"
UnknownModel == <<85, 110, 107, 110, 111, 119, 110, 32, 77, 111, 100, 101, 108>>

\* ------------------------------------------------------------------------
\* Text: html.escape and Python's ordering of str
\* ------------------------------------------------------------------------

\* html.escape(c, quote=True) of one character:
\* & -> &amp;  < -> &lt;  > -> &gt;  " -> &quot;  ' -> &#x27;
escape_char(c) ==
    CASE c = 38 -> <<38, 97, 109, 112, 59>>
      [] c = 60 -> <<38, 108, 116, 59>>
      [] c = 62 -> <<38, 103, 116, 59>>
      [] c = 34 -> <<38, 113, 117, 111, 116, 59>>
      [] c = 39 -> <<38, 35, 120, 50, 55, 59>>
      [] OTHER  -> <<c>>

RECURSIVE html_escape(_)
html_escape(s) ==
    IF s = <<>> THEN <<>> ELSE escape_char(Head(s)) \o html_escape(Tail(s))

\* a < b for two str values: code point by code point, a proper prefix first.
RECURSIVE str_lt(_, _)
str_lt(a, b) ==
    IF b = <<>> THEN FALSE
    ELSE IF a = <<>> THEN TRUE
    ELSE IF Head(a) # Head(b) THEN Head(a) < Head(b)
    ELSE str_lt(Tail(a), Tail(b))

\* ------------------------------------------------------------------------
\* get_all_wireless_devices: the status list partitioned
\* ------------------------------------------------------------------------

\* product_type.startswith("wireless"), over the product types of the API
\* The filter left out: every device of the response counts as wireless.
startswith_wireless_any(product_type) == product_type \in STRING

startswith_wireless(product_type) ==
    product_type \in {"wireless", "wirelessController"}

\* "status is not None" in place of the truthiness of status.
truthy_is_not_none(status) == status # NoneStatus

\* Python truthiness of a status value: None and "" are false.
truthy(status) == status # NoneStatus /\ status # ""

\* d[key] = value on an insertion-ordered dict, kept as a sequence of items:
\* an existing key keeps its place and takes the new value.
RECURSIVE dict_set(_, _, _)
dict_set(d, key, value) ==
    IF d = <<>> THEN <<[serial |-> key, status |-> value]>>
    ELSE IF Head(d).serial = key
         THEN <<[serial |-> key, status |-> value]>> \o Tail(d)
         ELSE <<Head(d)>> \o dict_set(Tail(d), key, value)

\* The loop over the statuses, with the set and the dict built so far.
RECURSIVE status_loop(_, _, _)
status_loop(statuses, online, offline) ==
    IF statuses = <<>> THEN [online |-> online, offline |-> offline]
    ELSE LET device == Head(statuses)
         IN  IF startswith_wireless(device.productType)
             THEN IF device.status = "online"
                  THEN status_loop(Tail(statuses), online \cup {device.serial}, offline)
                  ELSE status_loop(Tail(statuses), online,
                                   dict_set(offline, device.serial,
                                            IF truthy(device.status) THEN device.status
                                                                     ELSE "offline"))
             ELSE status_loop(Tail(statuses), online, offline)

get_all_wireless_devices(statuses) == status_loop(statuses, {}, <<>>)

\* list(a_set): the elements in the order the hash table yields them, which
\* for str keys is any order.
list_of_set(S) ==
    {seq \in [1..Cardinality(S) -> S] : \A i, j \in 1..Cardinality(S) : i # j => seq[i] # seq[j]}

\* ------------------------------------------------------------------------
\* get_wireless_connection_stats / get_channel_utilization_per_band
\* ------------------------------------------------------------------------

\* response.raise_for_status(): raises for 4xx and 5xx
raises_for_status(reply) == reply.status_code >= 400

\* dict.get(key, default)
dict_get(value, default) == IF value = Missing THEN default ELSE value

\* "x if x is not None else 0"
none_to_zero(x) == IF x = None THEN 0 ELSE x

\* The client count kept for one band from one reply.
band_client_count(reply) ==
    IF reply.status_code = NoResponse \/ raises_for_status(reply) THEN 0
    ELSE IF Len(reply.data) > 0
         THEN none_to_zero(dict_get(reply.data[Len(reply.data)].clientCount, 0))
         ELSE 0

\* The utilization kept for one band from one reply.
band_utilization_value(reply) ==
    IF reply.status_code = NoResponse \/ raises_for_status(reply) THEN 0
    ELSE IF Len(reply.data) > 0
         THEN LET most_recent == reply.data[Len(reply.data)]
              IN  none_to_zero(dict_get(most_recent.utilization,
                                        dict_get(most_recent.utilizationTotal, 0)))
         ELSE 0

\* Whether the except clauses print a warning for the reply: every failure
\* but an HTTP 400.
prints_warning(reply) ==
    \/ reply.status_code = NoResponse
    \/ raises_for_status(reply) /\ reply.status_code # 400

\* replies[serial][band] is what the API answers; the result maps every
\* serial to its three bands.  No exception leaves the function: both except
\* clauses swallow what the try block raises.
get_wireless_connection_stats(serials, replies) ==
    [serial \in {serials[i] : i \in 1..Len(serials)} |->
        [band \in BandSet |-> band_client_count(replies[serial][band])]]

get_channel_utilization_per_band(serials, replies) ==
    [serial \in {serials[i] : i \in 1..Len(serials)} |->
        [band \in BandSet |-> band_utilization_value(replies[serial][band])]]

\* ------------------------------------------------------------------------
\* generate_html_report: rows, their order, the version and the document
\* ------------------------------------------------------------------------

\* a_map.get(serial, default) on a map kept as a function
map_get(a_map, serial, default) ==
    IF serial \in DOMAIN a_map THEN a_map[serial] ELSE default

ZeroBands == [band \in BandSet |-> 0]

\* row_color: red when a band has > 100 clients or > 70 % utilization,
\* orange when a band has > 50 clients or > 50 %.
\* The thresholds taken inclusively: exactly 100 clients or 70% would be red,
\* exactly 50 clients or 50% orange.
row_color_of_inclusive(clients, util) ==
    IF \E band \in BandSet : clients[band] >= 100 \/ util[band] >= 70
    THEN "style='background-color: red;'"
    ELSE IF \E band \in BandSet : clients[band] >= 50 \/ util[band] >= 50
         THEN "style='background-color: orange;'"
         ELSE ""

row_color_of(clients, util) ==
    IF \E band \in BandSet : clients[band] > 100 \/ util[band] > 70
    THEN "style='background-color: red;'"
    ELSE IF \E band \in BandSet : clients[band] > 50 \/ util[band] > 50
         THEN "style='background-color: orange;'"
         ELSE ""

online_row(serial, names, models, connection_stats, utilization_per_band) ==
    LET band_clients == map_get(connection_stats, serial, ZeroBands)
        band_utilization == map_get(utilization_per_band, serial, ZeroBands)
        clients == [band \in BandSet |-> none_to_zero(band_clients[band])]
        util == [band \in BandSet |-> none_to_zero(band_utilization[band])]
    IN  [device_name |-> html_escape(map_get(names, serial, DefaultDeviceName)),
         device_model |-> html_escape(map_get(models, serial, UnknownModel)),
         total_clients |-> clients["2.4"] + clients["5"] + clients["6"],
         util_24 |-> util["2.4"], clients_24 |-> clients["2.4"],
         util_5 |-> util["5"], clients_5 |-> clients["5"],
         util_6 |-> util["6"], clients_6 |-> clients["6"],
         row_color |-> row_color_of(clients, util),
         is_offline |-> FALSE,
         status |-> "online"]

offline_row(item, names, models) ==
    [device_name |-> html_escape(map_get(names, item.serial, DefaultDeviceName)),
     device_model |-> html_escape(map_get(models, item.serial, UnknownModel)),
     total_clients |-> "-",
     util_24 |-> "-", clients_24 |-> "-",
     util_5 |-> "-", clients_5 |-> "-",
     util_6 |-> "-", clients_6 |-> "-",
     row_color |-> "",
     is_offline |-> TRUE,
     status |-> IF item.status = NoneStatus THEN "offline" ELSE item.status]

\* The rows as appended: one per element of online_serials, then one per item
\* of offline_devices.
unsorted_rows(serials, offline_devices, names, models, connection_stats, utilization_per_band) ==
    [i \in 1..Len(serials) |->
        online_row(serials[i], names, models, connection_stats, utilization_per_band)]
    \o
    [i \in 1..Len(offline_devices) |-> offline_row(offline_devices[i], names, models)]

\* The key of online_rows.sort: util_5 (a number in every online row).
online_key(row) == row.util_5

\* online_before without reverse=True
online_before_ascending(x, y) == online_key(x) < online_key(y)

\* online_rows.sort(key=..., reverse=True): x has to come before y.
online_before(x, y) == online_key(x) > online_key(y)

\* offline_rows.sort(key=device_name): x has to come before y.  The key is
\* the row's device_name, which is the escaped name.
offline_before(x, y) == str_lt(x.device_name, y.device_name)

\* list.sort is stable, also under reverse=True: an element goes behind every
\* element it does not have to precede.
RECURSIVE insert_online(_, _)
insert_online(x, sorted) ==
    IF sorted = <<>> THEN <<x>>
    ELSE IF online_before(x, Head(sorted)) THEN <<x>> \o sorted
    ELSE <<Head(sorted)>> \o insert_online(x, Tail(sorted))

RECURSIVE sort_online(_)
sort_online(rows) ==
    IF rows = <<>> THEN <<>>
    ELSE insert_online(rows[Len(rows)], sort_online(SubSeq(rows, 1, Len(rows) - 1)))

RECURSIVE insert_offline(_, _)
insert_offline(x, sorted) ==
    IF sorted = <<>> THEN <<x>>
    ELSE IF offline_before(x, Head(sorted)) THEN <<x>> \o sorted
    ELSE <<Head(sorted)>> \o insert_offline(x, Tail(sorted))

RECURSIVE sort_offline(_)
sort_offline(rows) ==
    IF rows = <<>> THEN <<>>
    ELSE insert_offline(rows[Len(rows)], sort_offline(SubSeq(rows, 1, Len(rows) - 1)))

\* [r for r in rows if pred(r)]
RECURSIVE rows_where(_, _)
rows_where(rows, offline) ==
    IF rows = <<>> THEN <<>>
    ELSE IF Head(rows).is_offline = offline
         THEN <<Head(rows)>> \o rows_where(Tail(rows), offline)
         ELSE rows_where(Tail(rows), offline)

\* rows = online_rows + offline_rows, each sorted
sorted_rows(rows) ==
    sort_online(rows_where(rows, FALSE)) \o sort_offline(rows_where(rows, TRUE))

\* The timestamp with the resolution of an hour: "%Y-%m-%d %H".
strftime_hour(t) == <<t \div 86400, (t \div 3600) % 24, 0, 0>>

\* datetime.now().strftime("%Y-%m-%d %H:%M:%S") of a clock reading in
\* seconds: the day, the hour, the minute and the second.
strftime(t) == <<t \div 86400, (t \div 3600) % 24, (t \div 60) % 60, t % 60>>

\* f"{last_updated}_{len(rows)}": the timestamp, "_" and the count
version_string(last_updated, n) == last_updated \o <<95, n>>

\* hashlib.md5(...).hexdigest()[:12], kept as the digest's argument under the
\* tag "md5": equal strings give equal digests, and the model takes no two
\* different strings to collide.
md5_hexdigest_12(string) == <<109, 100, 53>> \o string

version_id(last_updated, rows) ==
    md5_hexdigest_12(version_string(last_updated, Len(rows)))

\* The value current_page_version["version"] starts with: "0"
InitialVersion == <<48>>

\* str.upper() of a status string
upper(status) ==
    CASE status = "offline" -> "OFFLINE"
      [] status = "dormant" -> "DORMANT"
      [] status = "alerting" -> "ALERTING"
      [] status = "online" -> "ONLINE"
      [] OTHER -> status

\* One <tr> of the table.
render_row(row) ==
    [row_class |-> IF row.is_offline THEN "status-offline"
                   ELSE IF row.row_color = "style='background-color: red;'" THEN "status-red"
                   ELSE IF row.row_color = "style='background-color: orange;'" THEN "status-orange"
                   ELSE "",
     data_offline |-> row.is_offline,
     ap_name |-> row.device_name,
     model |-> row.device_model,
     status_display |-> IF row.is_offline
                        THEN [badge |-> "badge-gray", text |-> upper(row.status), count |-> 0]
                        ELSE [badge |-> "badge-green", text |-> "", count |-> row.total_clients],
     util_24 |-> row.util_24, clients_24 |-> row.clients_24,
     util_5 |-> row.util_5, clients_5 |-> row.clients_5,
     util_6 |-> row.util_6, clients_6 |-> row.clients_6]

\* The document: what of the page depends on the cycle.
render_html(rows, network_name, last_updated) ==
    [network_name |-> html_escape(network_name),
     last_updated |-> last_updated,
     total_count |-> Len(rows),
     table |-> [i \in 1..Len(rows) |-> render_row(rows[i])]]

\* ------------------------------------------------------------------------
\* Inputs: what the API answers and what the inventory holds
\* ------------------------------------------------------------------------

\* time.sleep(60)
SleepSeconds == 60

Serials == {"Q2AA", "Q2BB", "Q2CC"}

\* selected_network_name: "HQ"
NetworkName == <<72, 81>>

\* One entry of the device-status response.
Entry(serial, status, productType) ==
    [serial |-> serial, status |-> status, productType |-> productType]

\* The entries a status response is made of: wireless devices that are
\* online, that report another status or none, and devices that are not
\* wireless.
StatusEntries ==
    {Entry(s, st, "wireless") : s \in Serials, st \in {"online", "dormant", NoneStatus}}
    \cup {Entry(s, "online", "switch") : s \in Serials}

\* Every status response of at most n entries.
StatusLists(n) == UNION {[1..k -> StatusEntries] : k \in 0..n}

\* The status responses the polling loop of Spec meets.
LoopStatusLists ==
    { <<>>,
      <<Entry("Q2AA", "online", "wireless"), Entry("Q2BB", "dormant", "wireless")>>,
      <<Entry("Q2BB", "online", "wireless"), Entry("Q2AA", "online", "wireless")>> }

\* device_names_map as get_device_names leaves it: "<b", "0a", "a&"
Inventory1 == [s \in Serials |->
                 CASE s = "Q2AA" -> <<60, 98>>
                   [] s = "Q2BB" -> <<48, 97>>
                   [] OTHER -> <<97, 38>>]

\* Two devices of one name ("0a"), and a device the inventory does not hold.
Inventory2 == [s \in {"Q2AA", "Q2BB"} |-> <<48, 97>>]

\* device_models_map: "MR46" for every device of the inventory but one
Models == [s \in {"Q2AA", "Q2BB"} |-> <<77, 82, 52, 54>>]

\* A reply of a history endpoint: the status code and the list of samples.
Reply(status_code, data) == [status_code |-> status_code, data |-> data]

ClientSample(clientCount) == [clientCount |-> clientCount]

UtilSample(utilization, utilizationTotal) ==
    [utilization |-> utilization, utilizationTotal |-> utilizationTotal]

\* What clientCountHistory answers for the three bands of one device.
ClientProfiles ==
    { [band \in BandSet |->
         CASE band = "2.4" -> Reply(200, <<ClientSample(9), ClientSample(3)>>)
           [] band = "5"   -> Reply(200, <<ClientSample(60)>>)
           [] OTHER        -> Reply(200, <<>>)],
      [band \in BandSet |->
         CASE band = "2.4" -> Reply(500, <<>>)
           [] band = "5"   -> Reply(200, <<ClientSample(None)>>)
           [] OTHER        -> Reply(400, <<>>)] }

\* What channelUtilizationHistory answers for the three bands of one device.
UtilProfiles ==
    { [band \in BandSet |->
         CASE band = "2.4" -> Reply(200, <<UtilSample(Missing, 20)>>)
           [] band = "5"   -> Reply(200, <<UtilSample(90, Missing), UtilSample(40, Missing)>>)
           [] OTHER        -> Reply(200, <<>>)],
      [band \in BandSet |->
         CASE band = "2.4" -> Reply(200, <<UtilSample(None, 30)>>)
           [] band = "5"   -> Reply(200, <<UtilSample(10, Missing)>>)
           [] OTHER        -> Reply(400, <<>>)],
      [band \in BandSet |->
         CASE band = "2.4" -> Reply(200, <<UtilSample(Missing, Missing)>>)
           [] band = "5"   -> Reply(500, <<>>)
           [] OTHER        -> Reply(NoResponse, <<>>)] }

\* The profiles the polling loop of Spec meets: every query answered.
LoopClientProfiles == {p \in ClientProfiles : \A band \in BandSet : p[band].status_code = 200}

LoopUtilProfiles == {p \in UtilProfiles : \A band \in BandSet : p[band].status_code = 200}

\* ------------------------------------------------------------------------
\* State
\* ------------------------------------------------------------------------

VARIABLES
    pc,                       \* where main() stands
    clock,                    \* the wall clock, in seconds
    exc,                      \* the exception being handled, or "none"
    iteration,                \* main: iteration
    browser_opened,           \* main: browser_opened
    current_time,             \* main: current_time of the cycle
    device_names_map,         \* main: fetched once at startup
    device_models_map,        \* main: fetched once at startup
    status_reply,             \* the API's answer to this cycle's status request
    online_serials,           \* main: list(online_wireless_serials)
    offline_wireless_devices, \* main: the dict, as a sequence of items
    client_replies,           \* the API's answers to this cycle's client-count queries
    util_replies,             \* the API's answers to this cycle's utilization queries
    connection_stats_map,     \* main
    utilization_per_band_map, \* main
    rows,                     \* generate_html_report: rows, the snapshot
    html_report,              \* main: the document generate_html_report returned
    current_page_version,     \* the global current_page_version["version"]
    html_file,                \* meraki-ap-util.html in the working directory
    response,                 \* the last answer of the HTTP handler
    inventory_reply,          \* the API's answer to the inventory requests at startup
    tab                       \* the browser tab showing the report page

vars == <<pc, clock, exc, iteration, browser_opened, current_time, device_names_map,
          device_models_map, status_reply, online_serials, offline_wireless_devices,
          client_replies, util_replies, connection_stats_map, utilization_per_band_map,
          rows, html_report, current_page_version, html_file, response,
          inventory_reply, tab>>

store == <<current_page_version, html_file>>

locals == <<current_time, status_reply, online_serials, offline_wireless_devices,
            client_replies, util_replies, connection_stats_map,
            utilization_per_band_map, rows, html_report>>

session == <<device_names_map, device_models_map, inventory_reply>>

NoDoc == [network_name |-> <<>>, last_updated |-> <<>>, total_count |-> 0, table |-> <<>>]

\* A report a previous session left in the working directory.
StaleDoc == render_html(<<>>, NetworkName, strftime(0))

\* The file: whether it exists, how much of the document has been written
\* ("none" after open(..., "w") truncated it, "part", "all"), and the document.
File(exists, written, doc) == [exists |-> exists, written |-> written, doc |-> doc]

NoRequest == [path |-> "", code |-> 0, text |-> <<>>, file |-> File(FALSE, "none", NoDoc)]

\* "var currentVersion = null" of the page's script
Null == <<>>

\* The tab: "closed" (no report page in it), "loaded" (the page is shown and
\* its script polls) or "reloading" (location.reload was called); the document
\* it shows; the script's currentVersion.
Tab(state, doc, currentVersion) ==
    [state |-> state, doc |-> doc, currentVersion |-> currentVersion]

ClosedTab == Tab("closed", NoDoc, Null)

\* main() up to "while True": the inventory is fetched, the server thread is
\* started, nothing is published.  The working directory may hold the report
\* of an earlier session.
InitWith(inventories) ==
    /\ pc = "Fetching"
    /\ clock = 1
    /\ exc = "none"
    /\ iteration = 0
    /\ browser_opened = FALSE
    /\ current_time = <<>>
    /\ device_names_map \in inventories
    /\ device_models_map = Models
    /\ status_reply = Reply(NoResponse, <<>>)
    /\ online_serials = <<>>
    /\ offline_wireless_devices = <<>>
    /\ client_replies = <<>>
    /\ util_replies = <<>>
    /\ connection_stats_map = <<>>
    /\ utilization_per_band_map = <<>>
    /\ rows = <<>>
    /\ html_report = NoDoc
    /\ current_page_version = InitialVersion
    /\ html_file \in {File(FALSE, "none", NoDoc), File(TRUE, "all", StaleDoc)}
    /\ response = NoRequest
    /\ inventory_reply = Reply(200, <<>>)
    /\ tab = ClosedTab

\* ------------------------------------------------------------------------
\* main(): the polling loop
\* ------------------------------------------------------------------------

SerialSet(serials) == {serials[i] : i \in 1..Len(serials)}

\* A cycle starts and the status request is answered: the devices are
\* partitioned and the online set becomes a list.  With no device online the
\* two maps are {} and no metric is asked for.
FetchStatuses(limit, lists) ==
    /\ pc = "Fetching"
    /\ iteration < limit
    /\ \E statuses \in lists :
         LET got == get_all_wireless_devices(statuses)
         IN  \E serials \in list_of_set(got.online) :
               /\ status_reply' = Reply(200, statuses)
               /\ online_serials' = serials
               /\ offline_wireless_devices' = got.offline
               /\ IF serials # <<>>
                  THEN /\ pc' = "FetchClients"
                       /\ UNCHANGED <<connection_stats_map, utilization_per_band_map>>
                  ELSE /\ pc' = "Generate"
                       /\ connection_stats_map' = <<>>
                       /\ utilization_per_band_map' = <<>>
    /\ iteration' = iteration + 1
    /\ current_time' = strftime(clock)
    /\ client_replies' = <<>>
    /\ util_replies' = <<>>
    /\ UNCHANGED <<clock, exc, browser_opened, session, rows, html_report, store, response, tab>>

\* FetchStatusesRaises with the handler's "continue" left out: after the wait
\* the loop goes on to the report with what the previous cycle fetched.
FetchStatusesRaises_NoContinue(limit) ==
    /\ pc = "Fetching"
    /\ iteration < limit
    /\ \E status_code \in {500, NoResponse} : status_reply' = Reply(status_code, <<>>)
    /\ iteration' = iteration + 1
    /\ current_time' = strftime(clock)
    /\ clock' = clock + SleepSeconds
    /\ client_replies' = <<>>
    /\ util_replies' = <<>>
    /\ pc' = "Generate"
    /\ UNCHANGED <<exc, browser_opened, session, online_serials, offline_wireless_devices,
                   connection_stats_map, utilization_per_band_map, rows, html_report,
                   store, response, tab>>

\* The status request fails (an HTTP error status, or no response): the
\* handler prints, and the cycle is over.
FetchStatusesRaises(limit) ==
    /\ pc = "Fetching"
    /\ iteration < limit
    /\ \E status_code \in {500, NoResponse} :
         /\ status_reply' = Reply(status_code, <<>>)
         /\ exc' = IF status_code = NoResponse THEN "ConnectionError" ELSE "HTTPError"
    /\ iteration' = iteration + 1
    /\ current_time' = strftime(clock)
    /\ client_replies' = <<>>
    /\ util_replies' = <<>>
    /\ pc' = "Errored"
    /\ UNCHANGED <<clock, browser_opened, session, online_serials, offline_wireless_devices,
                   connection_stats_map, utilization_per_band_map, rows, html_report,
                   store, response, tab>>

\* FetchClients with a fetcher that lets a failure other than a 400 reach
\* main's except clause.
FetchClients_RaisesOnServerError(profiles) ==
    /\ pc = "FetchClients"
    /\ \E replies \in [SerialSet(online_serials) -> profiles] :
         /\ client_replies' = replies
         /\ IF \E s \in DOMAIN replies, band \in BandSet : prints_warning(replies[s][band])
            THEN /\ exc' = "HTTPError"
                 /\ pc' = "Errored"
                 /\ UNCHANGED connection_stats_map
            ELSE /\ connection_stats_map' = get_wireless_connection_stats(online_serials, replies)
                 /\ pc' = "FetchUtil"
                 /\ UNCHANGED exc
    /\ UNCHANGED <<clock, iteration, browser_opened, current_time, session, status_reply,
                   online_serials, offline_wireless_devices, util_replies,
                   utilization_per_band_map, rows, html_report, store, response, tab>>

FetchClients(profiles) ==
    /\ pc = "FetchClients"
    /\ \E replies \in [SerialSet(online_serials) -> profiles] :
         /\ client_replies' = replies
         /\ connection_stats_map' = get_wireless_connection_stats(online_serials, replies)
    /\ pc' = "FetchUtil"
    /\ UNCHANGED <<clock, exc, iteration, browser_opened, current_time, session, status_reply,
                   online_serials, offline_wireless_devices, util_replies,
                   utilization_per_band_map, rows, html_report, store, response, tab>>

\* FetchUtil with a fetcher that has no except clause for the 400 of an
\* unsupported band.
FetchUtil_RaisesOn400(profiles) ==
    /\ pc = "FetchUtil"
    /\ \E replies \in [SerialSet(online_serials) -> profiles] :
         /\ util_replies' = replies
         /\ IF \E s \in DOMAIN replies, band \in BandSet : replies[s][band].status_code = 400
            THEN /\ exc' = "HTTPError"
                 /\ pc' = "Errored"
                 /\ UNCHANGED utilization_per_band_map
            ELSE /\ utilization_per_band_map' =
                        get_channel_utilization_per_band(online_serials, replies)
                 /\ pc' = "Generate"
                 /\ UNCHANGED exc
    /\ UNCHANGED <<clock, iteration, browser_opened, current_time, session, status_reply,
                   online_serials, offline_wireless_devices, client_replies,
                   connection_stats_map, rows, html_report, store, response, tab>>

FetchUtil(profiles) ==
    /\ pc = "FetchUtil"
    /\ \E replies \in [SerialSet(online_serials) -> profiles] :
         /\ util_replies' = replies
         /\ utilization_per_band_map' = get_channel_utilization_per_band(online_serials, replies)
    /\ pc' = "Generate"
    /\ UNCHANGED <<clock, exc, iteration, browser_opened, current_time, session, status_reply,
                   online_serials, offline_wireless_devices, client_replies,
                   connection_stats_map, rows, html_report, store, response, tab>>

\* generate_html_report: the rows are built and ordered, the version is
\* stored in the global, the document is returned.
GenerateHtmlReport ==
    /\ pc = "Generate"
    /\ rows' = sorted_rows(unsorted_rows(online_serials, offline_wireless_devices,
                                         device_names_map, device_models_map,
                                         connection_stats_map, utilization_per_band_map))
    /\ current_page_version' = version_id(current_time, rows')
    /\ html_report' = render_html(rows', NetworkName, current_time)
    /\ pc' = "OpenFile"
    /\ UNCHANGED <<clock, exc, iteration, browser_opened, current_time, session, status_reply,
                   online_serials, offline_wireless_devices, client_replies, util_replies,
                   connection_stats_map, utilization_per_band_map, html_file, response, tab>>

\* open("meraki-ap-util.html", "w"): the file exists and is empty.
OpenFile ==
    /\ pc = "OpenFile"
    /\ html_file' = File(TRUE, "none", NoDoc)
    /\ pc' = "WriteFile"
    /\ UNCHANGED <<clock, exc, iteration, browser_opened, session, locals,
                   current_page_version, response, tab>>

\* OpenFileRaises with an outer handler that gives up instead of waiting.
OpenFileRaises_Breaks ==
    /\ pc = "OpenFile"
    /\ exc' = "OSError"
    /\ pc' = "Terminated"
    /\ UNCHANGED <<clock, iteration, browser_opened, session, locals, store, response, tab>>

\* open raises OSError: the file is as it was.
OpenFileRaises ==
    /\ pc = "OpenFile"
    /\ exc' = "OSError"
    /\ pc' = "Errored"
    /\ UNCHANGED <<clock, iteration, browser_opened, session, locals, store, response, tab>>

\* f.write(html_report): the first buffers reach the file.
WriteFile ==
    /\ pc = "WriteFile"
    /\ html_file' = File(TRUE, "part", html_report)
    /\ pc' = "CloseFile"
    /\ UNCHANGED <<clock, exc, iteration, browser_opened, session, locals,
                   current_page_version, response, tab>>

\* The write or the flush at close raises OSError: the file keeps what
\* reached it.
WriteFileRaises ==
    /\ pc \in {"WriteFile", "CloseFile"}
    /\ exc' = "OSError"
    /\ pc' = "Errored"
    /\ UNCHANGED <<clock, iteration, browser_opened, session, locals, store, response, tab>>

\* The with block ends: the whole document is in the file.  The browser is
\* opened after the first report.
CloseFile ==
    /\ pc = "CloseFile"
    /\ html_file' = File(TRUE, "all", html_report)
    /\ browser_opened' = TRUE
    /\ pc' = "Sleeping"
    /\ UNCHANGED <<clock, exc, iteration, session, locals, current_page_version, response, tab>>

\* The loop going on to the next cycle with no wait.
Sleep_NoWait ==
    /\ pc = "Sleeping"
    /\ pc' = "Fetching"
    /\ UNCHANGED <<clock, exc, iteration, browser_opened, session, locals, store, response, tab>>

\* time.sleep(60) after a report
Sleep ==
    /\ pc = "Sleeping"
    /\ clock' = clock + SleepSeconds
    /\ pc' = "Fetching"
    /\ UNCHANGED <<exc, iteration, browser_opened, session, locals, store, response, tab>>

\* The except clause leaving the loop after its wait.
PenaltySleep_Exits ==
    /\ pc = "Errored"
    /\ clock' = clock + SleepSeconds
    /\ exc' = "none"
    /\ pc' = "Exited"
    /\ UNCHANGED <<iteration, browser_opened, session, locals, store, response, tab>>

\* time.sleep(60) in an except clause, then the next cycle
PenaltySleep ==
    /\ pc = "Errored"
    /\ clock' = clock + SleepSeconds
    /\ exc' = "none"
    /\ pc' = "Fetching"
    /\ UNCHANGED <<iteration, browser_opened, session, locals, store, response, tab>>

\* Ctrl+C at any point of the loop: the loop is left, the process ends.  An
\* open file is closed with what was written to it.
KeyboardInterrupt ==
    /\ pc \notin {"Startup", "Exited", "Terminated"}
    /\ exc' = "KeyboardInterrupt"
    /\ pc' = "Terminated"
    /\ UNCHANGED <<clock, iteration, browser_opened, session, locals, store, response, tab>>

\* ------------------------------------------------------------------------
\* CustomHTTPRequestHandler.do_GET, in the server thread
\* ------------------------------------------------------------------------

\* The content of org.txt and of token.txt, which main() reads from the
\* directory it runs in: "12" and "k3y".
OrgId == <<49, 50>>

ApiKey == <<107, 51, 121>>

\* The files of the working directory beside the report.
WorkingDirectory == [p \in {"/org.txt", "/token.txt"} |->
                     IF p = "/org.txt" THEN OrgId ELSE ApiKey]

Paths == {"/version", "/version?t=1", "/", "/index.html", "/meraki-ap-util.html",
          "/org.txt", "/token.txt", "/favicon.ico"}

\* self.path.startswith('/version')
startswith_version(path) == path \in {"/version", "/version?t=1"}

Answer(path, code, text, file) == [path |-> path, code |-> code, text |-> text, file |-> file]

\* SimpleHTTPRequestHandler.do_GET: the file of the working directory the
\* path names, or 404.
send_file(path, file_path) ==
    IF file_path = "/meraki-ap-util.html"
    THEN IF html_file.exists
         THEN Answer(path, 200, <<>>, html_file)
         ELSE Answer(path, 404, <<>>, File(FALSE, "none", NoDoc))
    ELSE IF file_path \in DOMAIN WorkingDirectory
         THEN Answer(path, 200, WorkingDirectory[file_path], File(FALSE, "none", NoDoc))
         ELSE Answer(path, 404, <<>>, File(FALSE, "none", NoDoc))

\* What the handler answers to GET path.
answer_to(path) ==
    IF startswith_version(path)
    THEN Answer(path, 200, current_page_version, File(FALSE, "none", NoDoc))
    ELSE IF path \in {"/", "/index.html"}
         THEN send_file(path, "/meraki-ap-util.html")
         ELSE send_file(path, path)

\* A handler that writes the last built report to the file before it
\* answers "/".
do_GET_Republishes(path) ==
    /\ pc \notin {"Startup", "Exited", "Terminated"}
    /\ response' = answer_to(path)
    /\ html_file' = IF path = "/" THEN File(TRUE, "all", html_report) ELSE html_file
    /\ UNCHANGED <<pc, clock, exc, iteration, browser_opened, session, locals,
                   current_page_version>>

\* The server thread runs from its start in main() to the end of the process.
do_GET(path) ==
    /\ pc \notin {"Startup", "Exited", "Terminated"}
    /\ response' = answer_to(path)
    /\ UNCHANGED <<pc, clock, exc, iteration, browser_opened, session, locals, store>>

\* ------------------------------------------------------------------------
\* The report page in the browser
\* ------------------------------------------------------------------------

\* What the tab holds after it asked for "/": the page with its script, which
\* starts with currentVersion = null, if the whole document came; no report
\* page otherwise (the script stands at the end of the document).
page_of(answer) ==
    IF answer.code = 200 /\ answer.file.written = "all"
    THEN Tab("loaded", answer.file.doc, Null)
    ELSE ClosedTab

\* The browser main() started with webbrowser.open loads the page.
TabOpen ==
    /\ tab.state = "closed"
    /\ browser_opened
    /\ do_GET("/")
    /\ tab' = page_of(response')

\* checkForUpdates(), every 3 seconds: the first answer becomes
\* currentVersion, a later answer that differs from it reloads the page.
TabPoll ==
    /\ tab.state = "loaded"
    /\ do_GET("/version?t=1")
    /\ tab' = IF tab.currentVersion = Null
              THEN Tab("loaded", tab.doc, response'.text)
              ELSE IF response'.text # tab.currentVersion
                   THEN Tab("reloading", tab.doc, tab.currentVersion)
                   ELSE tab

\* location.reload(true)
TabReload ==
    /\ tab.state = "reloading"
    /\ do_GET("/")
    /\ tab' = page_of(response')

\* ------------------------------------------------------------------------
\* main() before the loop: the inventory requests and the server thread
\* ------------------------------------------------------------------------

\* The state when main() has read its files and the network is chosen.
InitSession ==
    /\ pc = "Startup"
    /\ clock = 0
    /\ exc = "none"
    /\ iteration = 0
    /\ browser_opened = FALSE
    /\ current_time = <<>>
    /\ device_names_map = <<>>
    /\ device_models_map = <<>>
    /\ status_reply = Reply(NoResponse, <<>>)
    /\ online_serials = <<>>
    /\ offline_wireless_devices = <<>>
    /\ client_replies = <<>>
    /\ util_replies = <<>>
    /\ connection_stats_map = <<>>
    /\ utilization_per_band_map = <<>>
    /\ rows = <<>>
    /\ html_report = NoDoc
    /\ current_page_version = InitialVersion
    /\ html_file \in {File(FALSE, "none", NoDoc), File(TRUE, "all", StaleDoc)}
    /\ response = NoRequest
    /\ inventory_reply = Reply(NoResponse, <<>>)
    /\ tab = ClosedTab

\* What the two inventory requests may fail with: an HTTP error status, or
\* no response.
InventoryFailures == {Reply(500, <<>>), Reply(401, <<>>), Reply(NoResponse, <<>>)}

\* The except clauses without their return: the loop starts with no inventory.
FetchInventoryRaises_NoReturn ==
    /\ pc = "Startup"
    /\ inventory_reply' \in InventoryFailures
    /\ clock' = clock + 1
    /\ pc' = "Fetching"
    /\ UNCHANGED <<exc, iteration, browser_opened, device_names_map, device_models_map,
                   locals, store, response, tab>>

\* get_device_names and get_device_models answer; the server thread is
\* started, main() sleeps a second and enters the loop.
FetchInventory(inventories) ==
    /\ pc = "Startup"
    /\ inventory_reply' = Reply(200, <<>>)
    /\ device_names_map' \in inventories
    /\ device_models_map' = Models
    /\ clock' = clock + 1
    /\ pc' = "Fetching"
    /\ UNCHANGED <<exc, iteration, browser_opened, locals, store, response, tab>>

\* One of the two requests raises: main() prints the error and returns.
FetchInventoryRaises ==
    /\ pc = "Startup"
    /\ inventory_reply' \in InventoryFailures
    /\ pc' = "Exited"
    /\ UNCHANGED <<clock, exc, iteration, browser_opened, device_names_map,
                   device_models_map, locals, store, response, tab>>

\* ------------------------------------------------------------------------
\* Specifications
\* ------------------------------------------------------------------------

\* The session: the polling loop for MaxIter cycles beside the HTTP server.
Init == InitWith({Inventory1})

Next ==
    \/ FetchStatuses(MaxIter, LoopStatusLists)
    \/ FetchStatusesRaises(MaxIter)
    \/ FetchClients(LoopClientProfiles)
    \/ FetchUtil(LoopUtilProfiles)
    \/ GenerateHtmlReport
    \/ OpenFile
    \/ OpenFileRaises
    \/ WriteFile
    \/ WriteFileRaises
    \/ CloseFile
    \/ Sleep
    \/ PenaltySleep
    \/ KeyboardInterrupt
    \/ \E path \in Paths : do_GET(path) /\ UNCHANGED tab

Spec == Init /\ [][Next]_vars

\* The session from the inventory requests on.
NextSession ==
    \/ FetchInventory({Inventory1})
    \/ FetchInventoryRaises
    \/ Next

SpecSession == InitSession /\ [][NextSession]_vars

\* The session beside the browser tab it opened.
NextBrowser ==
    \/ Next
    \/ TabOpen
    \/ TabPoll
    \/ TabReload

SpecBrowser == Init /\ [][NextBrowser]_vars

\* The loop with no Ctrl+C, under the fairness of a running process: main()
\* is a sequential thread, every call it makes returns or raises, so a step
\* of the loop that can be taken is taken.
NextLive ==
    \/ FetchStatuses(MaxIter, LoopStatusLists)
    \/ FetchStatusesRaises(MaxIter)
    \/ FetchClients(LoopClientProfiles)
    \/ FetchUtil(LoopUtilProfiles)
    \/ GenerateHtmlReport
    \/ OpenFile
    \/ OpenFileRaises
    \/ WriteFile
    \/ WriteFileRaises
    \/ CloseFile
    \/ Sleep
    \/ PenaltySleep

SpecLive == Init /\ [][NextLive]_vars /\ WF_vars(NextLive)

\* One cycle over status responses of access points of every status, the
\* empty and the missing status among them.
OfflineStatusEntries ==
    {Entry(s, st, "wireless") :
        s \in {"Q2AA", "Q2BB"}, st \in {"online", "dormant", "alerting", "", NoneStatus}}

OfflineStatusLists == UNION {[1..k -> OfflineStatusEntries] : k \in 0..MaxLen}

NextOffline ==
    \/ FetchStatuses(1, OfflineStatusLists)
    \/ FetchClients(LoopClientProfiles)
    \/ FetchUtil(LoopUtilProfiles)
    \/ GenerateHtmlReport

SpecOffline == Init /\ [][NextOffline]_vars

\* One cycle of the loop over every status response of at most MaxLen
\* entries, every inventory and every combination of the reply profiles.
InitCycle == InitWith({Inventory1, Inventory2})

NextCycle ==
    \/ FetchStatuses(1, StatusLists(MaxLen))
    \/ FetchStatusesRaises(1)
    \/ FetchClients(ClientProfiles)
    \/ FetchUtil(UtilProfiles)
    \/ GenerateHtmlReport
    \/ OpenFile
    \/ OpenFileRaises
    \/ WriteFile
    \/ WriteFileRaises
    \/ CloseFile
    \/ Sleep
    \/ PenaltySleep

SpecCycle == InitCycle /\ [][NextCycle]_vars

\* ------------------------------------------------------------------------
\* Properties of the store and of the loop
\* ------------------------------------------------------------------------

\* The version generate_html_report stores for the snapshot of a document.
TokenOf(doc) == md5_hexdigest_12(version_string(doc.last_updated, doc.total_count))

\* The file holds a whole document.
ServesDocument == html_file.exists /\ html_file.written = "all"

\* C1: once this session has published a report, whenever the file holds a
\* whole document the version token is the token of that document: what
\* GET /version returns and what GET / returns are of one snapshot.
C1_TokenAndDocumentOfOneSnapshot ==
    (browser_opened /\ ServesDocument) => current_page_version = TokenOf(html_file.doc)

RaisedInCycle == {"HTTPError", "ConnectionError", "OSError"}

\* C3: the loop is left only by a user interrupt; an exception raised in a
\* cycle puts the loop in its except clause, and from there the only way on
\* is the 60-second wait and the next cycle.
C3_OnlyInterruptTerminates ==
    /\ [](pc = "Terminated" => exc = "KeyboardInterrupt")
    /\ [](exc \in RaisedInCycle => pc = "Errored")
    /\ [][(exc' \in RaisedInCycle /\ exc' # exc) => pc' = "Errored"]_vars
    /\ [][(pc = "Errored" /\ pc' \notin {"Errored", "Terminated"})
             => (pc' = "Fetching" /\ clock' = clock + SleepSeconds)]_vars

\* The write of a report failed, the loop waited and stands at the next fetch.
C3_Witness ==
    /\ pc = "Fetching"
    /\ exc = "none"
    /\ html_file.exists /\ html_file.written = "part"
    /\ clock = 1 + SleepSeconds

\* C4: after a user interrupt that follows a published report, the file
\* holds a whole document and the version token is the token of that document.
C4_InterruptLeavesStoreConsistent ==
    (pc = "Terminated" /\ browser_opened) =>
        (ServesDocument /\ current_page_version = TokenOf(html_file.doc))

\* ------------------------------------------------------------------------
\* Properties of one cycle: the fetchers and the snapshot
\* ------------------------------------------------------------------------

\* main() stands behind generate_html_report: rows is this cycle's snapshot.
BuiltPcs == {"OpenFile", "WriteFile", "CloseFile", "Sleeping"}

row_clients(row, band) ==
    CASE band = "2.4" -> row.clients_24 [] band = "5" -> row.clients_5 [] OTHER -> row.clients_6

row_util(row, band) ==
    CASE band = "2.4" -> row.util_24 [] band = "5" -> row.util_5 [] OTHER -> row.util_6

\* The snapshot has an online row of the device with 0 clients on the band.
HasRowWithZeroClients(serial, band) ==
    \E i \in 1..Len(rows) :
        /\ ~rows[i].is_offline
        /\ rows[i].device_name = html_escape(map_get(device_names_map, serial, DefaultDeviceName))
        /\ row_clients(rows[i], band) = 0

HasRowWithZeroUtil(serial, band) ==
    \E i \in 1..Len(rows) :
        /\ ~rows[i].is_offline
        /\ rows[i].device_name = html_escape(map_get(device_names_map, serial, DefaultDeviceName))
        /\ row_util(rows[i], band) = 0

\* Some query of the cycle was answered by a reply of the kind.
SomeClientReply(kind(_)) ==
    \E s \in DOMAIN client_replies, band \in BandSet : kind(client_replies[s][band])

SomeUtilReply(kind(_)) ==
    \E s \in DOMAIN util_replies, band \in BandSet : kind(util_replies[s][band])

\* Each query answered by a reply of the kind left 0 in the fetcher's map and
\* in the device's row of the snapshot.
RecordedAsZero(kind(_)) ==
    /\ \A s \in DOMAIN client_replies, band \in BandSet :
          kind(client_replies[s][band]) =>
              (connection_stats_map[s][band] = 0 /\ HasRowWithZeroClients(s, band))
    /\ \A s \in DOMAIN util_replies, band \in BandSet :
          kind(util_replies[s][band]) =>
              (utilization_per_band_map[s][band] = 0 /\ HasRowWithZeroUtil(s, band))

\* The cycle has written the report of its snapshot.
Published ==
    /\ pc = "Sleeping"
    /\ html_file = File(TRUE, "all", render_html(rows, NetworkName, current_time))
    /\ current_page_version = version_id(current_time, rows)

Is400(reply) == reply.status_code = 400

C6_BadRequestRecordedAsZero ==
    /\ [][(pc = "FetchClients" /\ SomeClientReply(Is400)') => pc' = "FetchUtil"]_vars
    /\ [][(pc = "FetchUtil" /\ SomeUtilReply(Is400)') => pc' = "Generate"]_vars
    /\ [](pc \in BuiltPcs => RecordedAsZero(Is400))
    /\ [](pc = "Sleeping" /\ (SomeClientReply(Is400) \/ SomeUtilReply(Is400)) => Published)

\* A cycle with a 400 among its client-count replies and one among its
\* utilization replies has published a snapshot with the device's row.
C6_Witness ==
    /\ Published
    /\ \E s \in DOMAIN client_replies :
          Is400(client_replies[s]["6"]) /\ HasRowWithZeroClients(s, "6")
    /\ \E s \in DOMAIN util_replies :
          Is400(util_replies[s]["6"]) /\ HasRowWithZeroUtil(s, "6")

\* The serials of the wireless entries of a status response.
WirelessSerials(statuses) ==
    {statuses[i].serial : i \in {j \in 1..Len(statuses) :
                                    startswith_wireless(statuses[j].productType)}}

\* C7: the snapshot has at most one row per serial of the status response.
\* Every wireless serial of the response gives at least one row, so the rows
\* are at most as many as the wireless serials exactly if no serial gives two.
C7_AtMostOneRowPerSerial ==
    pc \in BuiltPcs => Len(rows) <= Cardinality(WirelessSerials(status_reply.data))

\* C8: in the snapshot and in the table of the document, no offline row
\* stands before an online row, and of two online rows the earlier has the
\* 5 GHz utilization that is not the smaller.
C8_OnlineFirstByUtilization ==
    pc \in BuiltPcs =>
        /\ Len(html_report.table) = Len(rows)
        /\ \A i, j \in 1..Len(rows) :
              i < j =>
                 /\ ~(rows[i].is_offline /\ ~rows[j].is_offline)
                 /\ (~rows[i].is_offline /\ ~rows[j].is_offline)
                       => rows[i].util_5 >= rows[j].util_5
                 /\ ~(html_report.table[i].data_offline /\ ~html_report.table[j].data_offline)
                 /\ (~html_report.table[i].data_offline /\ ~html_report.table[j].data_offline)
                       => html_report.table[i].util_5 >= html_report.table[j].util_5

\* The sort has exchanged two online devices that the list held in ascending
\* order of their 5 GHz utilization.
C8_Witness ==
    /\ pc \in BuiltPcs
    /\ Len(online_serials) = 2
    /\ utilization_per_band_map[online_serials[1]]["5"]
          < utilization_per_band_map[online_serials[2]]["5"]
    /\ ~rows[1].is_offline /\ ~rows[2].is_offline
    /\ rows[1].util_5 > rows[2].util_5

\* The device names a row's name can stand for.
KnownNames == {device_names_map[s] : s \in DOMAIN device_names_map} \cup {DefaultDeviceName}

\* The device name a row shows: the name whose escaped form the row holds.
RawName(row) == CHOOSE n \in KnownNames : html_escape(n) = row.device_name

\* C9: of two offline rows of the snapshot, the later does not have the
\* smaller device name.
C9_OfflineAscendingByName ==
    pc \in BuiltPcs =>
        \A i, j \in 1..Len(rows) :
            (i < j /\ rows[i].is_offline /\ rows[j].is_offline)
                => ~str_lt(RawName(rows[j]), RawName(rows[i]))

\* The online serials of a status response in the order of their first
\* online wireless entry.
RECURSIVE fetch_order(_, _)
fetch_order(statuses, seen) ==
    IF statuses = <<>> THEN <<>>
    ELSE LET device == Head(statuses)
         IN  IF /\ startswith_wireless(device.productType)
                /\ device.status = "online"
                /\ device.serial \notin seen
             THEN <<device.serial>> \o fetch_order(Tail(statuses), seen \cup {device.serial})
             ELSE fetch_order(Tail(statuses), seen)

\* C10: the online rows of the snapshot are the rows of the online devices,
\* taken in the order of the status response and sorted stably by descending
\* 5 GHz utilization: rows of equal utilization keep the response's order.
C10_TiesInFetchOrder ==
    pc \in BuiltPcs =>
        rows_where(rows, FALSE) =
            sort_online([i \in 1..Len(fetch_order(status_reply.data, {})) |->
                            online_row(fetch_order(status_reply.data, {})[i],
                                       device_names_map, device_models_map,
                                       connection_stats_map, utilization_per_band_map)])

\* ------------------------------------------------------------------------
\* One cycle over metric values at and around the thresholds
\* ------------------------------------------------------------------------

\* The status response of the cycle: one access point online, one dormant.
MetricsStatusList ==
    <<Entry("Q2AA", "online", "wireless"), Entry("Q2BB", "dormant", "wireless")>>

\* Client counts and utilization percentages the API reports for a band: the
\* thresholds, their successors, and a percentage above 100, which
\* get_channel_utilization_per_band takes as it takes any other number.
BoundaryClientCounts == {50, 51, 100, 101}

BoundaryUtilizations == {50, 51, 70, 71, 150}

BoundaryClientProfiles ==
    {[band \in BandSet |-> Reply(200, <<ClientSample(c[band])>>)] :
        c \in [BandSet -> BoundaryClientCounts]}

BoundaryUtilProfiles ==
    {[band \in BandSet |-> Reply(200, <<UtilSample(u[band], Missing)>>)] :
        u \in [BandSet -> BoundaryUtilizations]}

InitMetrics == InitWith({Inventory1})

NextMetrics ==
    \/ FetchStatuses(1, {MetricsStatusList})
    \/ FetchClients(BoundaryClientProfiles)
    \/ FetchUtil(BoundaryUtilProfiles)
    \/ GenerateHtmlReport

SpecMetrics == InitMetrics /\ [][NextMetrics]_vars

RowBandClients(row) == {row.clients_24, row.clients_5, row.clients_6}

RowBandUtil(row) == {row.util_24, row.util_5, row.util_6}

RowIsCritical(row) ==
    (\E c \in RowBandClients(row) : c > 100) \/ (\E u \in RowBandUtil(row) : u > 70)

RowIsWarning(row) ==
    (\E c \in RowBandClients(row) : c > 50) \/ (\E u \in RowBandUtil(row) : u > 50)

OnlineShaped(row) ==
    /\ row.status = "online"
    /\ \A u \in RowBandUtil(row) : u \in 0..100
    /\ \A c \in RowBandClients(row) : c >= 0
    /\ row.total_clients = row.clients_24 + row.clients_5 + row.clients_6

OfflineShaped(row) ==
    /\ row.status \in {"offline", "dormant", "alerting"}
    /\ RowBandUtil(row) = {"-"}
    /\ RowBandClients(row) = {"-"}
    /\ row.total_clients = "-"

\* C12: every row of a report is online-shaped (each band's utilization
\* within 0..100, each band's client count at least 0, the total the sum of
\* the three counts) or offline-shaped (a status, every metric marked "-"),
\* whatever numbers the metric replies hold.
C12_RowsOnlineOrOfflineShaped ==
    pc \in BuiltPcs =>
        \A i \in 1..Len(rows) :
            IF rows[i].is_offline THEN OfflineShaped(rows[i]) ELSE OnlineShaped(rows[i])

\* Product types of devices that are not access points.
NotWirelessTypes == {"switch", "wired", "appliance", "camera"}

\* The serials the status response lists with no other product types.
WiredSerials(statuses) ==
    {s \in SerialSet([i \in 1..Len(statuses) |-> statuses[i].serial]) :
        \A i \in 1..Len(statuses) :
            statuses[i].serial = s => statuses[i].productType \in NotWirelessTypes}

\* C13: a device the status response lists as a switch (or any other
\* non-wireless product type) gives no row: it is in neither collection the
\* rows are built from, the rows are exactly one per element of the two
\* collections, and where names tell devices apart no row carries its name.
C13_WiredDeviceGivesNoRow ==
    pc \in BuiltPcs =>
        /\ \A s \in WiredSerials(status_reply.data) :
              /\ s \notin SerialSet(online_serials)
              /\ \A i \in 1..Len(offline_wireless_devices) :
                    offline_wireless_devices[i].serial # s
              /\ device_names_map = Inventory1 =>
                    \A i \in 1..Len(rows) :
                        rows[i].device_name # html_escape(Inventory1[s])
        /\ Len(rows) = Len(online_serials) + Len(offline_wireless_devices)

\* A report built from a response of a switch and an access point: one row.
C13_Witness ==
    /\ pc \in BuiltPcs
    /\ Len(status_reply.data) = 2
    /\ WiredSerials(status_reply.data) = {"Q2AA"}
    /\ device_names_map = Inventory1
    /\ Len(rows) = 1
    /\ rows[1].device_name = html_escape(Inventory1["Q2BB"])

\* C15: before the first report of this session is published, GET / and
\* GET /index.html answer 404 and serve no document, whatever the working
\* directory held at startup.
C15_NotFoundBeforeFirstPublish ==
    (~browser_opened /\ response.path \in {"/", "/index.html"}) => response.code = 404

\* C16: a step in which the handler answers a request, for the version, the
\* report or any other path, leaves the token and the file as they were and
\* no request to the API is made or answered in it; the loop stays where it is.
C16_RequestsLeaveStoreAlone ==
    [][response' # response =>
          /\ store' = store
          /\ <<status_reply, client_replies, util_replies, inventory_reply>>' =
               <<status_reply, client_replies, util_replies, inventory_reply>>
          /\ <<pc, iteration, locals>>' = <<pc, iteration, locals>>]_vars

\* A request for another file of the directory answered while the report
\* file is being written, and a request for the report answered after it.
C16_Witness ==
    \/ /\ response.path = "/org.txt"
       /\ response.code = 200
       /\ pc = "WriteFile"
       /\ html_file.written = "part"
    \/ /\ response.path = "/"
       /\ response.code = 200
       /\ response.file = html_file
       /\ iteration = 2
       /\ pc = "FetchClients"

InitialFiles == {File(FALSE, "none", NoDoc), File(TRUE, "all", StaleDoc)}

\* C17: when an inventory request at startup has failed, main() has returned:
\* no cycle has started, no status request was made, the handler has answered
\* nothing, and the token and the file are what they were at startup.
C17_InventoryFailureEndsSession ==
    (pc # "Startup" /\ inventory_reply.status_code # 200) =>
        /\ pc = "Exited"
        /\ iteration = 0
        /\ status_reply = Reply(NoResponse, <<>>)
        /\ response = NoRequest
        /\ current_page_version = InitialVersion
        /\ html_file \in InitialFiles
        /\ html_report = NoDoc

C17_Witness ==
    /\ pc = "Exited"
    /\ inventory_reply = Reply(500, <<>>)
    /\ html_file = File(TRUE, "all", StaleDoc)

\* The store holds a whole document and the token that belongs to it.
StoreSettled ==
    /\ html_file.exists
    /\ html_file.written = "all"
    /\ TokenOf(html_file.doc) = current_page_version

\* C18: the tab does not miss a published report.  Once its script holds the
\* token of the report the store holds, no poll reloads the page until the
\* next report, so by then the tab must show that report; this holds for
\* every order of page load, first poll and publish.
C18_TabShowsPublishedReport ==
    (tab.state = "loaded" /\ tab.currentVersion = current_page_version /\ StoreSettled)
        => tab.doc = html_file.doc

\* The status request of the cycle was answered and the devices partitioned.
StatusFetched == pc \in {"FetchClients", "FetchUtil", "Generate"}

\* C19: with no Ctrl+C, a failed cycle always leads to the next fetch (the
\* loop stays neither in Errored nor in Sleeping), and a cycle whose status
\* request succeeds, after however many failed cycles, leads to the
\* publication of its report, unless writing the file itself fails, which
\* again leads to the next fetch.
C19_FailedCyclesLeadToPublish ==
    /\ (pc \in {"Errored", "Sleeping"}) ~> (pc = "Fetching")
    /\ StatusFetched ~> (Published \/ (pc = "Errored" /\ exc = "OSError"))

\* The status request of the second cycle succeeds after the first cycle
\* failed before anything was built.
C19_Witness ==
    /\ StatusFetched
    /\ iteration = 2
    /\ clock = 1 + SleepSeconds
    /\ html_report = NoDoc
    /\ ~html_file.exists

\* C20: a report is built and written only when the status request of its
\* cycle was answered and, for every serial it found online, the client-count
\* and the utilization queries of that cycle were answered (with no serial
\* online there is no query to wait for); the file changes only in the
\* publishing steps; and the loop comes back to the fetch only through one
\* wait of 60 seconds, so two cycles start 60 seconds apart.
C20_PublishAfterFetchesAndOneWait ==
    /\ [](pc \in BuiltPcs =>
            /\ status_reply.status_code = 200
            /\ SerialSet(online_serials) = get_all_wireless_devices(status_reply.data).online
            /\ DOMAIN client_replies = SerialSet(online_serials)
            /\ DOMAIN util_replies = SerialSet(online_serials)
            /\ html_report.last_updated = current_time)
    /\ [][html_file' # html_file => pc \in {"OpenFile", "WriteFile", "CloseFile"}]_vars
    /\ [][(pc' = "Fetching" /\ pc \notin {"Fetching", "Startup"}) =>
              /\ clock' = clock + SleepSeconds
              /\ pc \in {"Sleeping", "Errored"}]_vars
    /\ [][(iteration' = iteration + 1 /\ iteration >= 1) =>
              /\ pc = "Fetching"
              /\ current_time = strftime(clock - SleepSeconds)
              /\ current_time' = strftime(clock)]_vars

\* The second cycle, begun 60 seconds after the first, has fetched the
\* metrics of an online access point and written its report.
C20_Witness ==
    /\ Published
    /\ iteration = 2
    /\ clock = 1 + SleepSeconds
    /\ online_serials # <<>>
    /\ current_time = strftime(1 + SleepSeconds)

\* C21: when open or write has raised in a cycle whose report was built,
\* after an earlier publication of this session, the store is as that
\* publication left it: the file holds a whole document and the token served
\* is the token of that document.
C21_FailedWriteLeavesStore ==
    (pc = "Errored" /\ exc = "OSError" /\ browser_opened) =>
        /\ ServesDocument
        /\ TokenOf(html_file.doc) = current_page_version

\* C22: after the first publication a request for "/" or "/index.html" is
\* answered with a whole document, also while a later report is being
\* written: never with an empty or a partly written file.
C22_ReportServedWhole ==
    [][(browser_opened /\ response' # response /\ response'.path \in {"/", "/index.html"}) =>
          /\ response'.code = 200
          /\ response'.file.written = "all"]_vars

\* C23: every report changes the token.  The token a cycle computes differs
\* from the token it replaces, and the token of a report that is being
\* written differs from the token of the whole document the file held until
\* then, whether or not the two have as many rows: their timestamps, taken
\* to the second 60 seconds or more apart, differ.
C23_PublishChangesToken ==
    /\ [][(pc = "Generate" /\ pc' = "OpenFile") =>
              current_page_version' # current_page_version]_vars
    /\ [][(pc = "OpenFile" /\ pc' = "WriteFile" /\ ServesDocument) =>
              /\ TokenOf(html_report) # TokenOf(html_file.doc)
              /\ html_report.last_updated # html_file.doc.last_updated]_vars

\* The second report is published with as many rows as the first, which a
\* request for "/" had fetched, and with another token.
C23_Witness ==
    /\ Published
    /\ iteration = 2
    /\ response.path = "/"
    /\ response.file.written = "all"
    /\ response.file.doc.last_updated = strftime(1)
    /\ response.file.doc.total_count = Len(rows)
    /\ Len(rows) = 2
    /\ TokenOf(response.file.doc) # current_page_version

\* The entries of a status response that report serial s as an access point
\* that is not online, and those that report it online.
NonOnlineEntries(statuses, s) ==
    {i \in 1..Len(statuses) : /\ statuses[i].serial = s
                              /\ statuses[i].productType \notin NotWirelessTypes
                              /\ statuses[i].status # "online"}

OnlineEntries(statuses, s) ==
    {i \in 1..Len(statuses) : /\ statuses[i].serial = s
                              /\ statuses[i].productType \notin NotWirelessTypes
                              /\ statuses[i].status = "online"}

\* The status the response reports for s, the last if it reports several;
\* "offline" where it is missing or empty.
ReportedStatus(statuses, s) ==
    LET last == CHOOSE i \in NonOnlineEntries(statuses, s) :
                    \A j \in NonOnlineEntries(statuses, s) : j <= i
    IN  IF statuses[last].status \in {NoneStatus, ""} THEN "offline"
        ELSE statuses[last].status

\* C24: an access point the status response reports with a status other than
\* "online" has exactly one offline row in the report, offline-shaped, with
\* the reported status ("offline" where the status is missing or empty), also
\* in the rendered table; and if the response nowhere reports it online, no
\* client-count or utilization query was made for it and it has no other row.
C24_OfflineDeviceGivesOneStatusRow ==
    pc \in BuiltPcs =>
        \A s \in Serials :
            NonOnlineEntries(status_reply.data, s) # {} =>
                LET named == {i \in 1..Len(rows) :
                                 rows[i].device_name = html_escape(device_names_map[s])}
                    mine == {i \in named : rows[i].is_offline}
                IN  /\ Cardinality(mine) = 1
                    /\ \A i \in mine :
                          /\ OfflineShaped(rows[i])
                          /\ rows[i].status = ReportedStatus(status_reply.data, s)
                          /\ html_report.table[i].status_display.text =
                               upper(ReportedStatus(status_reply.data, s))
                    /\ OnlineEntries(status_reply.data, s) = {} =>
                          /\ s \notin DOMAIN client_replies
                          /\ s \notin DOMAIN util_replies
                          /\ named = mine

\* A report for one access point online and one reported with an empty
\* status: metric queries for the first only, an "offline" row for the other.
C24_Witness ==
    /\ pc \in BuiltPcs
    /\ status_reply.data = <<Entry("Q2AA", "online", "wireless"), Entry("Q2BB", "", "wireless")>>
    /\ DOMAIN client_replies = {"Q2AA"}
    /\ DOMAIN util_replies = {"Q2AA"}
    /\ Len(rows) = 2
    /\ rows[2].status = "offline"

\* word stands somewhere in text.
Contains(text, word) ==
    \E i \in 1..Len(text) :
        /\ i + Len(word) - 1 <= Len(text)
        /\ SubSeq(text, i, i + Len(word) - 1) = word

\* C25: no answer of the handler, to whatever path, carries the API key or
\* the organization id main() read at startup: not in its body, and not in
\* the document it serves.
C25_NoAnswerCarriesCredentials ==
    /\ ~Contains(response.text, ApiKey)
    /\ ~Contains(response.text, OrgId)
    /\ ~Contains(response.file.doc.network_name, ApiKey)
    /\ ~Contains(response.file.doc.network_name, OrgId)

====
